---- MODULE Spec2Model ----
(***************************************************************************)
(* Model of postgresql_tune.py (Ansible module generating PostgreSQL and   *)
(* Linux kernel configuration).                                            *)
(*                                                                         *)
(* The module is Python 2 code (dict.iteritems): "/" on two ints is floor  *)
(* division.  math.floor returns a float whose value is an integer; the    *)
(* quantities below stay far under 2^53, so the float results equal the    *)
(* exact integer results and are modelled as integers.                     *)
(*                                                                         *)
(* Byte quantities (total_memory, kernel.shmmax) exceed the 32 bit range   *)
(* of the model checker's integers, so a byte count n is the record        *)
(* [kb |-> n \div 1024, b |-> n % 1024].  Kilobyte quantities are plain    *)
(* integers.  db_version (a float with one decimal) is held in tenths:     *)
(* 9.5 is 95.  A number stored in the dict config is a record that keeps   *)
(* its Python type: PyInt(n) is the int n, PyFloat(n, t) the float         *)
(* n + t / 10.  Strings built by str.format are sequences of one-character *)
(* strings.                                                                *)
(***************************************************************************)
EXTENDS Integers, Sequences, FiniteSets, TLC

VARIABLES pc, args, config, stdout, ret, fs

vars == <<pc, args, config, stdout, ret, fs>>

None == "None"

-----------------------------------------------------------------------------
(* Bounds of the explored inputs *)

\* total_memory ranges over 64 MiB and 96 MiB doubled up to MaxMemExp times
MaxMemExp == 11

\* db_version ranges over 9.2 .. 9.2 + NumVersionSteps / 10
NumVersionSteps == 4

\* format_value is applied to multiples of 1 MB and 1 GB up to MaxFmtMult
MaxFmtMult == 3

-----------------------------------------------------------------------------
(* Module constants *)

\* CONST_SIZE['KB_PER_GB'], CONST_SIZE['KB_PER_MB']
KB_PER_GB == 1048576

KB_PER_MB == 1024

\* CONST_SIZE['KB'|'MB'|'GB'|'TB'] in units of 1024 bytes
CONST_SIZE_KB == [KB |-> 1, MB |-> 1024, GB |-> 1048576, TB |-> 1073741824]

CON_BY_TYPE == [web |-> 200, oltp |-> 300, dw |-> 20, desktop |-> 5, mixed |-> 100]

NOT_SIZE_VALUES ==
    {"max_connections", "checkpoint_segments", "checkpoint_completion_target",
     "default_statistics_target", "random_page_cost", "seq_page_cost"}

WARNING == "# WARNING: not optimal for very high memory systems"

-----------------------------------------------------------------------------
(* Python helpers *)

\* dict with no keys
EmptyDict == [k \in {} |-> 0]

\* d[k] = v
SetItem(d, k, v) == (k :> v) @@ d


\* "{0}".format(n) for a non-negative int n
RECURSIVE StrInt(_)
StrInt(n) ==
    IF n < 10 THEN <<ToString(n)>>
    ELSE StrInt(n \div 10) \o <<ToString(n % 10)>>

\* numbers with their Python type
PyInt(n) == [ty |-> "int", n |-> n, tenths |-> 0]

PyFloat(n, t) == [ty |-> "float", n |-> n, tenths |-> t]

\* the value None where a number may stand
PyNone == [ty |-> "NoneType", n |-> 0, tenths |-> 0]

\* truth value of an int or None
Truthy(x) == x.ty # "NoneType" /\ x.n # 0

\* math.floor(x) of the non-negative integer quotient x: a float
MathFloor(n) == PyFloat(n, 0)

\* "{0}".format(value): "5" for the int 5, "5.0" and "0.7" for floats
StrNumber(value) ==
    IF value.ty = "int"
    THEN StrInt(value.n)
    ELSE StrInt(value.n) \o <<".">> \o <<ToString(value.tenths)>>

-----------------------------------------------------------------------------
(* postgres_settings: the values of the memory parameters, in KB *)

\* variant: ">" written for ">=" in the low memory test
MemoryIsSufficientStrict(total_memory) ==
    total_memory.kb > 256 * CONST_SIZE_KB.MB
        \/ (total_memory.kb = 256 * CONST_SIZE_KB.MB /\ total_memory.b > 0)

\* total_memory >= 256 * CONST_SIZE['MB']
MemoryIsSufficient(total_memory) == total_memory.kb >= 256 * CONST_SIZE_KB.MB

\* total_memory >= 100 * CONST_SIZE['GB']
MemoryIsVeryHigh(total_memory) == total_memory.kb >= 100 * CONST_SIZE_KB.GB

\* memory_in_KB = total_memory / CONST_SIZE['KB']
memory_in_KB(total_memory) == total_memory.kb

shared_buffers(db_type, memKB) ==
    [web     |-> memKB \div 4,
     oltp    |-> memKB \div 4,
     dw      |-> memKB \div 4,
     desktop |-> memKB \div 16,
     mixed   |-> memKB \div 4][db_type]

\* 512 * CONST_SIZE['MB'] / CONST_SIZE['KB'], the limit on Windows, an int
WindowsLimit == 512 * CONST_SIZE_KB.MB

\* the shared_buffers value after "limit shared_buffers to 512MB on Windows"
LimitedSharedBuffers(os_type, value) ==
    IF os_type = "windows" /\ value.n > WindowsLimit
    THEN PyInt(WindowsLimit)
    ELSE value

\* variant: "/ 3 / 4" written for "* 3 / 4"
effective_cache_sizeDivided(db_type, memKB) ==
    [web     |-> (memKB \div 3) \div 4,
     oltp    |-> (memKB \div 3) \div 4,
     dw      |-> (memKB \div 3) \div 4,
     desktop |-> memKB \div 4,
     mixed   |-> (memKB \div 3) \div 4][db_type]

effective_cache_size(db_type, memKB) ==
    [web     |-> (memKB * 3) \div 4,
     oltp    |-> (memKB * 3) \div 4,
     dw      |-> (memKB * 3) \div 4,
     desktop |-> memKB \div 4,
     mixed   |-> (memKB * 3) \div 4][db_type]

\* variant: shared_buffers not subtracted from the memory distributed
work_memOfAllMemory(db_type, memKB, sb, max_conn) ==
    LET n == memKB
        d == max_conn * 3
    IN  [web     |-> n \div d,
         oltp    |-> n \div d,
         dw      |-> n \div (d * 2),
         desktop |-> n \div (d * 6),
         mixed   |-> n \div (d * 2)][db_type]

\* work_mem = (memory_in_KB - shared_buffers) / (max_connections * 3) is a
\* float quotient; floor(q), floor(q / 2) and floor(q / 6) of the quotient q
\* of two non-negative integers n / d are n \div d, n \div (2 d), n \div (6 d).
work_mem(db_type, memKB, sb, max_conn) ==
    LET n == memKB - sb
        d == max_conn * 3
    IN  [web     |-> n \div d,
         oltp    |-> n \div d,
         dw      |-> n \div (d * 2),
         desktop |-> n \div (d * 6),
         mixed   |-> n \div (d * 2)][db_type]

\* the table of maintenance_work_mem, then the cap at 2GB
maintenance_work_mem(db_type, memKB) ==
    LET table == [web     |-> memKB \div 16,
                  oltp    |-> memKB \div 16,
                  dw      |-> memKB \div 8,
                  desktop |-> memKB \div 16,
                  mixed   |-> memKB \div 16]
        cap == 2 * CONST_SIZE_KB.GB
    IN  IF table[db_type] > cap THEN cap ELSE table[db_type]

\* variant: no rounding up to an even 16MB
wal_buffersNotRounded(sb) ==
    LET mb16 == 16 * CONST_SIZE_KB.MB
        pct3 == (3 * sb) \div 100
    IN  IF pct3 > mb16 THEN mb16 ELSE pct3

\* 3% of shared_buffers up to 16MB, rounded up to 16MB when above 14MB
wal_buffers(sb) ==
    LET mb16   == 16 * CONST_SIZE_KB.MB
        mb14   == 14 * CONST_SIZE_KB.MB
        pct3   == (3 * sb) \div 100
        capped == IF pct3 > mb16 THEN mb16 ELSE pct3
    IN  IF mb14 < capped /\ capped < mb16 THEN mb16 ELSE capped

checkpoint_segments ==
    [web |-> 32, oltp |-> 64, dw |-> 128, desktop |-> 3, mixed |-> 32]

min_wal_size ==
    [web     |-> 1024 * CONST_SIZE_KB.MB,
     oltp    |-> 2048 * CONST_SIZE_KB.MB,
     dw      |-> 4096 * CONST_SIZE_KB.MB,
     desktop |-> 100 * CONST_SIZE_KB.MB,
     mixed   |-> 1024 * CONST_SIZE_KB.MB]

max_wal_size ==
    [web     |-> 2048 * CONST_SIZE_KB.MB,
     oltp    |-> 4096 * CONST_SIZE_KB.MB,
     dw      |-> 8192 * CONST_SIZE_KB.MB,
     desktop |-> 100 * CONST_SIZE_KB.MB,
     mixed   |-> 2048 * CONST_SIZE_KB.MB]

\* tenths: 0.7, 0.9, 0.9, 0.5, 0.9
checkpoint_completion_target ==
    [web |-> 7, oltp |-> 9, dw |-> 9, desktop |-> 5, mixed |-> 9]

default_statistics_target ==
    [web |-> 100, oltp |-> 100, dw |-> 500, desktop |-> 100, mixed |-> 100]

-----------------------------------------------------------------------------
(* postgres_settings: the statements in order.  A frame holds the local     *)
(* dict config, the lines printed so far and the exception raised, if any;  *)
(* a statement reached after an exception does nothing.                     *)

Frame0 == [config |-> EmptyDict, printed |-> <<>>, raised |-> None]

Assign(f, k, v) == [f EXCEPT !.config = SetItem(@, k, v)]

PrintLine(f, line) == [f EXCEPT !.printed = Append(@, line)]

\* config[k] = {...}[db_type] for a table of ints: KeyError when db_type is
\* not a key
AssignLookup(f, k, table, db_type) ==
    IF db_type \in DOMAIN table
    THEN Assign(f, k, PyInt(table[db_type]))
    ELSE [f EXCEPT !.raised = "KeyError"]

\* variant: ">= 9999" written for "> 9999"
MaxConnectionsInvalidFrom9999(max_connections) ==
    \/ ~Truthy(max_connections)
    \/ max_connections.n < 1
    \/ max_connections.n >= 9999

\* if not max_connections or max_connections < 1 or max_connections > 9999
MaxConnectionsInvalid(max_connections) ==
    \/ ~Truthy(max_connections)
    \/ max_connections.n < 1
    \/ max_connections.n > 9999

StmtMaxConnections(f, db_type, max_connections) ==
    IF MaxConnectionsInvalid(max_connections)
    THEN AssignLookup(f, "max_connections", CON_BY_TYPE, db_type)
    ELSE Assign(f, "max_connections", max_connections)

\* the block under "if total_memory >= (256 * CONST_SIZE['MB'])" and its else
StmtMemory(f, os_type, db_type, total_memory) ==
    IF f.raised # None THEN f
    ELSE IF MemoryIsSufficient(total_memory)
    THEN IF db_type \notin DOMAIN CON_BY_TYPE
         THEN [f EXCEPT !.raised = "KeyError"]
         ELSE LET memKB == memory_in_KB(total_memory)
                  sb    == LimitedSharedBuffers(os_type,
                               MathFloor(shared_buffers(db_type, memKB)))
                  f1    == Assign(f, "shared_buffers", sb)
                  f2    == Assign(f1, "effective_cache_size",
                               MathFloor(effective_cache_size(db_type, memKB)))
                  f3    == Assign(f2, "work_mem",
                               MathFloor(work_mem(db_type, memKB, sb.n,
                                            f.config["max_connections"].n)))
                  f4    == Assign(f3, "maintenance_work_mem",
                               MathFloor(maintenance_work_mem(db_type, memKB)))
              IN  IF MemoryIsVeryHigh(total_memory)
                  THEN PrintLine(f4, WARNING)
                  ELSE f4
    ELSE PrintLine(f, WARNING)

\* variant: "<= 9.5" written for "< 9.5"
StmtWalUpTo95(f, db_version, db_type) ==
    IF f.raised # None THEN f
    ELSE IF db_version <= 95
    THEN AssignLookup(f, "checkpoint_segments", checkpoint_segments, db_type)
    ELSE LET f1 == AssignLookup(f, "min_wal_size", min_wal_size, db_type)
         IN  IF f1.raised # None THEN f1
             ELSE AssignLookup(f1, "max_wal_size", max_wal_size, db_type)

\* if db_version < 9.5: checkpoint_segments, else min_wal_size and max_wal_size
StmtWal(f, db_version, db_type) ==
    IF f.raised # None THEN f
    ELSE IF db_version < 95
    THEN AssignLookup(f, "checkpoint_segments", checkpoint_segments, db_type)
    ELSE LET f1 == AssignLookup(f, "min_wal_size", min_wal_size, db_type)
         IN  IF f1.raised # None THEN f1
             ELSE AssignLookup(f1, "max_wal_size", max_wal_size, db_type)

StmtCheckpointCompletionTarget(f, db_type) ==
    IF f.raised # None THEN f
    ELSE IF db_type \in DOMAIN checkpoint_completion_target
    THEN Assign(f, "checkpoint_completion_target",
                PyFloat(0, checkpoint_completion_target[db_type]))
    ELSE [f EXCEPT !.raised = "KeyError"]

\* if 'shared_buffers' in config
StmtWalBuffers(f) ==
    IF f.raised # None THEN f
    ELSE IF "shared_buffers" \in DOMAIN f.config
    THEN Assign(f, "wal_buffers",
                MathFloor(wal_buffers(f.config["shared_buffers"].n)))
    ELSE f

StmtDefaultStatisticsTarget(f, db_type) ==
    IF f.raised # None THEN f
    ELSE AssignLookup(f, "default_statistics_target",
                      default_statistics_target, db_type)

\* value % m == 0 for an int or a float
Divisible(value, m) == value.tenths = 0 /\ value.n % m = 0

\* variant: the MB test made before the GB test
format_valueMBFirst(key, value) ==
    IF key \in NOT_SIZE_VALUES
    THEN StrNumber(value)
    ELSE IF Divisible(value, KB_PER_MB)
    THEN StrInt(value.n \div KB_PER_MB) \o <<"M", "B">>
    ELSE IF Divisible(value, KB_PER_GB)
    THEN StrInt(value.n \div KB_PER_GB) \o <<"G", "B">>
    ELSE StrInt(value.n) \o <<"k", "B">>

\* format_value(key, value) of the non-negative number value
format_value(key, value) ==
    IF key \in NOT_SIZE_VALUES
    THEN StrNumber(value)
    ELSE IF Divisible(value, KB_PER_GB)
    THEN StrInt(value.n \div KB_PER_GB) \o <<"G", "B">>
    ELSE IF Divisible(value, KB_PER_MB)
    THEN StrInt(value.n \div KB_PER_MB) \o <<"M", "B">>
    ELSE StrInt(value.n) \o <<"k", "B">>

\* the result of a call: what was raised, what was printed, the local config
\* at the end and the returned dict
postgres_settings(db_version, os_type, db_type, total_memory, max_connections) ==
    LET f1 == StmtMaxConnections(Frame0, db_type, max_connections)
        f2 == StmtMemory(f1, os_type, db_type, total_memory)
        f3 == StmtWal(f2, db_version, db_type)
        f4 == StmtCheckpointCompletionTarget(f3, db_type)
        f5 == StmtWalBuffers(f4)
        f6 == StmtDefaultStatisticsTarget(f5, db_type)
    IN  [raised  |-> f6.raised,
         printed |-> f6.printed,
         config  |-> f6.config,
         value   |-> IF f6.raised # None THEN None
                     ELSE [k \in DOMAIN f6.config |->
                              format_value(k, f6.config[k])]]

-----------------------------------------------------------------------------
(* kernel_settings *)

\* variant: ">= 9.3" written for "> 9.3"
kernel_settingsFrom93(db_version, os_type, db_type, total_memory) ==
    IF os_type = "windows" \/ db_version >= 93
    THEN EmptyDict
    ELSE LET shmall == total_memory.kb \div 8
         IN  SetItem(SetItem(EmptyDict, "kernel.shmmax",
                             [kb |-> shmall * 4, b |-> 0]),
                     "kernel.shmall", shmall)

\* kernel.shmmax is a byte count: shmall * 4096 bytes are shmall * 4 KB
kernel_settings(db_version, os_type, db_type, total_memory) ==
    IF os_type = "windows" \/ db_version > 93
    THEN EmptyDict
    ELSE LET shmall == total_memory.kb \div 8
         IN  SetItem(SetItem(EmptyDict, "kernel.shmmax",
                             [kb |-> shmall * 4, b |-> 0]),
                     "kernel.shmall", shmall)

-----------------------------------------------------------------------------
(* tune and main *)

POSTGRESQL_FILE == "/tmp/postgresql_tune.conf"

SYSCTL_FILE == "/tmp/sysctl_tune.conf"

\* a file is <<>> when it does not exist and <<content>> when it does
Absent == <<>>

\* file_exists(file_path)
file_exists(files, file_path) ==
    IF file_path = None THEN FALSE ELSE files[file_path] # Absent

\* md5(file_path) of an existing file: equal digests stand for equal contents
md5(files, file_path) == <<"md5", files[file_path][1]>>

\* md5(file_path) if file_exists(file_path) else None
HashOrNone(files, file_path) ==
    IF file_exists(files, file_path) THEN md5(files, file_path) ELSE <<None>>

\* mem_in_size * const_for_size, a multiple of 1024 bytes
MemoryArgBytes(memory_arg) ==
    [kb |-> memory_arg[1] * CONST_SIZE_KB[memory_arg[2]], b |-> 0]

\* total_memory * total_memory_percentage / 100 on the byte count
\* kb * 1024 + b, without forming the byte count
ScaledMemory(total_memory, percentage) ==
    LET p == total_memory.kb * percentage
        t == ((p % 100) * 1024 + total_memory.b * percentage) \div 100
    IN  [kb |-> (p \div 100) + (t \div 1024), b |-> t % 1024]

\* config["postgresql"].pop("max_connections", None)
Pop(d, key) == [k \in DOMAIN d \ {key} |-> d[k]]

\* what the "with open(postgresql_file, 'w')" block writes: the five comment
\* lines, then one line per item
PostgresqlFileContent(data, db_version, total_memory_original, total_memory, cfg) ==
    [header |-> <<db_version, data.db_type, total_memory_original,
                  data.total_memory_percentage, total_memory>>,
     body   |-> cfg]

SysctlFileContent(cfg) == [header |-> <<>>, body |-> cfg]

\* x or y for a tuple x
PyOr(x, y) == IF Len(x) > 0 THEN x ELSE y

\* return (old_postgresql_file_hash != new_postgresql_file_hash, config)
\*        or (old_sysctl_file_hash != new_sysctl_file_hash)
TuneReturn(old_pg, new_pg, old_sysctl, new_sysctl, cfg) ==
    PyOr(<<old_pg # new_pg, cfg>>, old_sysctl # new_sysctl)

\* total_memory_original
TotalMemoryOriginal(data) == MemoryArgBytes(data.total_memory)

\* total_memory after "if total_memory_percentage != 100"
TotalMemory(data) ==
    IF data.total_memory_percentage # 100
    THEN ScaledMemory(TotalMemoryOriginal(data), data.total_memory_percentage)
    ELSE TotalMemoryOriginal(data)

\* config["postgresql"] after "if disable_max_connections"
PostgresqlConfig(data, settings) ==
    IF data.disable_max_connections
    THEN Pop(settings, "max_connections")
    ELSE settings

\* the files after the PostgreSQL file is written
WritePostgresqlFile(files, data, pg_cfg) ==
    [files EXCEPT ![data.postgresql_file] =
        <<PostgresqlFileContent(data, data.db_version,
                                TotalMemoryOriginal(data), TotalMemory(data),
                                pg_cfg)>>]

\* the files after "if bool(data["sysctl_file"])" and its block
WriteSysctlFile(files, data, kernel) ==
    IF data.sysctl_file # None
    THEN [files EXCEPT ![data.sysctl_file] = <<SysctlFileContent(kernel)>>]
    ELSE files

\* old_sysctl_file_hash, taken after the PostgreSQL file is written
OldSysctlHash(files, data, pg_cfg) ==
    IF data.sysctl_file # None
    THEN HashOrNone(WritePostgresqlFile(files, data, pg_cfg), data.sysctl_file)
    ELSE <<None>>

\* new_sysctl_file_hash = md5(data["postgresql_file"])
NewSysctlHash(files, data, pg_cfg, kernel) ==
    IF data.sysctl_file # None
    THEN md5(WriteSysctlFile(WritePostgresqlFile(files, data, pg_cfg), data,
                             kernel),
             data.postgresql_file)
    ELSE <<None>>

\* tune from "write configuration file" on: the files afterwards and the
\* returned value
TuneWrite(files, data, printed, pg_cfg, kernel) ==
    [raised  |-> None,
     printed |-> printed,
     files   |-> WriteSysctlFile(WritePostgresqlFile(files, data, pg_cfg),
                                 data, kernel),
     value   |-> TuneReturn(
                     HashOrNone(files, data.postgresql_file),
                     md5(WritePostgresqlFile(files, data, pg_cfg),
                         data.postgresql_file),
                     OldSysctlHash(files, data, pg_cfg),
                     NewSysctlHash(files, data, pg_cfg, kernel),
                     [postgresql |-> pg_cfg, kernel |-> kernel])]

\* tune after the call of postgres_settings, whose exception it lets through
TuneSettings(files, data, pg) ==
    IF pg.raised # None
    THEN [raised |-> pg.raised, printed |-> pg.printed, files |-> files,
          value |-> <<>>]
    ELSE TuneWrite(files, data, pg.printed,
                   PostgresqlConfig(data, pg.value),
                   kernel_settings(data.db_version, "linux", data.db_type,
                                   TotalMemory(data)))

\* tune(data) run on the files: the exception raised, the lines printed,
\* the files afterwards and the returned value
tune(files, data) ==
    TuneSettings(files, data,
                 postgres_settings(data.db_version, "linux", data.db_type,
                                   TotalMemory(data),
                                   PyInt(data.max_connections)))

-----------------------------------------------------------------------------
(* The inputs explored *)

KnownDbTypes == DOMAIN CON_BY_TYPE

DbTypes == KnownDbTypes \cup {"olap"}

OsTypes == {"linux", "windows"}

DbVersions == {92 + i : i \in 0..NumVersionSteps}

MaxConnectionsInputs ==
    {PyNone} \cup {PyInt(n) : n \in {-1, 0, 1, 50, 9999, 10000}}

\* 64 MiB and 96 MiB doubled e times, one byte less, one byte more and one
\* KB more
TotalMemories ==
    LET base == {m * (2 ^ e) : m \in {65536, 98304}, e \in 0..MaxMemExp}
    IN  UNION {{[kb |-> k - 1, b |-> 1023], [kb |-> k, b |-> 0],
                [kb |-> k, b |-> 1], [kb |-> k + 1, b |-> 0]} : k \in base}

SizeKeys == {"shared_buffers", "work_mem", "min_wal_size"}

FormatValues ==
    (0..2)
    \cup {m * KB_PER_MB + d : m \in 1..MaxFmtMult, d \in {-1, 0, 1}}
    \cup {m * KB_PER_GB + d : m \in 1..MaxFmtMult, d \in {-1, 0, 1, KB_PER_MB}}

NoArgs ==
    [fn |-> "none", db_version |-> 0, os_type |-> "linux", db_type |-> "web",
     total_memory |-> [kb |-> 0, b |-> 0], max_connections |-> PyNone,
     key |-> "", value |-> PyInt(0)]

SettingsArgs ==
    {[NoArgs EXCEPT !.fn = "settings", !.db_version = v, !.os_type = o,
                    !.db_type = t, !.total_memory = m, !.max_connections = c] :
        v \in DbVersions, o \in OsTypes, t \in DbTypes, m \in TotalMemories,
        c \in MaxConnectionsInputs}

FormatArgs ==
    {[NoArgs EXCEPT !.fn = "format", !.key = k, !.value = x] :
        k \in NOT_SIZE_VALUES \cup SizeKeys,
        x \in {PyInt(n) : n \in FormatValues}
              \cup {PyFloat(n, 0) : n \in FormatValues}}

NoFiles == [p \in {POSTGRESQL_FILE, SYSCTL_FILE} |-> Absent]

NoRet == [fn |-> "none", raised |-> None, value |-> <<>>]

-----------------------------------------------------------------------------
(* Calls of the three functions on inputs drawn by Init *)

Init ==
    /\ pc = "ready"
    /\ args \in SettingsArgs \cup FormatArgs
    /\ config = EmptyDict
    /\ stdout = <<>>
    /\ ret = NoRet
    /\ fs = NoFiles

CallPostgresSettings ==
    /\ pc = "ready"
    /\ args.fn = "settings"
    /\ LET r == postgres_settings(args.db_version, args.os_type, args.db_type,
                                  args.total_memory, args.max_connections)
       IN  /\ ret' = [fn |-> "postgres_settings", raised |-> r.raised,
                      value |-> r.value]
           /\ config' = r.config
           /\ stdout' = r.printed
    /\ pc' = "done"
    /\ UNCHANGED <<args, fs>>

CallKernelSettings ==
    /\ pc = "ready"
    /\ args.fn = "settings"
    /\ ret' = [fn |-> "kernel_settings", raised |-> None,
               value |-> kernel_settings(args.db_version, args.os_type,
                                         args.db_type, args.total_memory)]
    /\ pc' = "done"
    /\ UNCHANGED <<args, config, stdout, fs>>

CallFormatValue ==
    /\ pc = "ready"
    /\ args.fn = "format"
    /\ ret' = [fn |-> "format_value", raised |-> None,
               value |-> format_value(args.key, args.value)]
    /\ pc' = "done"
    /\ UNCHANGED <<args, config, stdout, fs>>

Next == CallPostgresSettings \/ CallKernelSettings \/ CallFormatValue

Spec == Init /\ [][Next]_vars

-----------------------------------------------------------------------------
(* Runs of the module, one after the other, on the same two files *)

TuneMemoryArgs == {<<128, "MB">>, <<1, "GB">>}

TuneData ==
    [db_version : {93, 96},
     db_type : {"web", "olap"},
     max_connections : {50},
     total_memory : TuneMemoryArgs,
     total_memory_percentage : {50, 100},
     disable_max_connections : BOOLEAN,
     postgresql_file : {POSTGRESQL_FILE},
     sysctl_file : {None, SYSCTL_FILE}]

NoData == CHOOSE d \in TuneData : TRUE

InitTune ==
    /\ pc = "ready"
    /\ args = NoData
    /\ config = EmptyDict
    /\ stdout = <<>>
    /\ ret = NoRet
    /\ fs = NoFiles

\* main: has_changed, config = tune(module.params), then exit_json
Main ==
    \E data \in TuneData :
        LET r == tune(fs, data)
        IN  /\ args' = data
            /\ fs' = r.files
            /\ stdout' = r.printed
            /\ ret' = IF r.raised # None
                      THEN [fn |-> "tune", raised |-> r.raised, value |-> <<>>]
                      ELSE [fn |-> "tune", raised |-> None,
                            value |-> [changed |-> r.value[1]]]
            /\ config' = IF r.raised # None THEN EmptyDict ELSE r.value[2]
            /\ pc' = "done"

NextTune == Main

SpecTune == InitTune /\ [][NextTune]_vars

-----------------------------------------------------------------------------
(* Reading the produced strings back *)

Digits == {ToString(d) : d \in 0..9}

DigitValue(c) == CHOOSE d \in 0..9 : ToString(d) = c

AllDigits(str) == Len(str) > 0 /\ \A i \in 1..Len(str) : str[i] \in Digits

RECURSIVE DigitsValue(_)
DigitsValue(str) ==
    IF Len(str) = 0 THEN 0
    ELSE DigitsValue(SubSeq(str, 1, Len(str) - 1)) * 10
         + DigitValue(str[Len(str)])

\* the KB value a PostgreSQL size string such as 256MB stands for, -1 when
\* the string is not a number followed by GB, MB or kB
ParseSize(str) ==
    LET n    == Len(str)
        num  == SubSeq(str, 1, n - 2)
        unit == SubSeq(str, n - 1, n)
    IN  IF n < 3 \/ ~AllDigits(num) THEN -1
        ELSE IF unit = <<"G", "B">> THEN DigitsValue(num) * KB_PER_GB
        ELSE IF unit = <<"M", "B">> THEN DigitsValue(num) * KB_PER_MB
        ELSE IF unit = <<"k", "B">> THEN DigitsValue(num)
        ELSE -1

\* a call of postgres_settings has returned a dict
Returned == pc = "done" /\ ret.fn = "postgres_settings" /\ ret.raised = None

\* 256 MiB in KB
LowMemoryKB == 256 * 1024

-----------------------------------------------------------------------------
(* Properties *)

\* C1: a call of postgres_settings with a workload type outside web, oltp,
\* dw, desktop, mixed fails with the unknown-workload error before any output:
\* nothing is printed, no dict is returned and no file is written.
C1_UnknownWorkloadAbortsBeforeOutput ==
    (pc = "done" /\ ret.fn = "postgres_settings"
        /\ args.db_type \notin {"web", "oltp", "dw", "desktop", "mixed"})
    => (ret.raised = "KeyError" /\ stdout = <<>> /\ fs = NoFiles)

\* C2: for a known workload the returned dict has checkpoint_segments and
\* neither min_wal_size nor max_wal_size when db_version < 9.5, and both
\* min_wal_size and max_wal_size and no checkpoint_segments otherwise.
C2_WalKeysExclusive ==
    Returned =>
        LET keys == DOMAIN ret.value
        IN  IF args.db_version < 95
            THEN /\ "checkpoint_segments" \in keys
                 /\ "min_wal_size" \notin keys
                 /\ "max_wal_size" \notin keys
            ELSE /\ "checkpoint_segments" \notin keys
                 /\ "min_wal_size" \in keys
                 /\ "max_wal_size" \in keys

C2_Witness ==
    /\ Returned
    /\ args.db_version = 95
    /\ {"min_wal_size", "max_wal_size"} \subseteq DOMAIN ret.value

\* C3: wal_buffers is absent from the result exactly when total_memory is
\* below 256 MiB; when present its unformatted value is at most 16384 KB and
\* is 16384 KB whenever floor(3% of shared_buffers) lies strictly between
\* 14336 KB and 16384 KB.
C3_WalBuffers ==
    Returned =>
        /\ ("wal_buffers" \notin DOMAIN ret.value)
               <=> (args.total_memory.kb < LowMemoryKB)
        /\ "wal_buffers" \in DOMAIN ret.value =>
               LET uncapped == (3 * config["shared_buffers"].n) \div 100
               IN  /\ config["wal_buffers"].n <= 16384
                   /\ ret.value["wal_buffers"] # <<>>
                   /\ ParseSize(ret.value["wal_buffers"])
                          = config["wal_buffers"].n
                   /\ (14336 < uncapped /\ uncapped < 16384)
                          => config["wal_buffers"].n = 16384

\* shared_buffers clamped to 512 MiB on Windows: 3% is 15728 KB, rounded up
C3_Witness ==
    /\ Returned
    /\ args.os_type = "windows"
    /\ args.total_memory.kb >= 8 * 524288
    /\ config["shared_buffers"].n = 524288
    /\ config["wal_buffers"].n = 16384

\* C4: for a known workload, below 256 MiB the result has none of
\* shared_buffers, effective_cache_size, work_mem, maintenance_work_mem and
\* from 256 MiB on it has all four; max_connections,
\* checkpoint_completion_target and default_statistics_target are present in
\* both cases.
C4_LowMemoryGuard ==
    Returned =>
        LET keys   == DOMAIN ret.value
            memory == {"shared_buffers", "effective_cache_size", "work_mem",
                       "maintenance_work_mem"}
        IN  /\ IF args.total_memory.kb < LowMemoryKB
               THEN keys \cap memory = {}
               ELSE memory \subseteq keys
            /\ {"max_connections", "checkpoint_completion_target",
                "default_statistics_target"} \subseteq keys

\* one byte below 256 MiB: the notice is printed and the dict is returned
C4_Witness ==
    /\ Returned
    /\ args.total_memory = [kb |-> LowMemoryKB - 1, b |-> 1023]
    /\ Len(stdout) = 1
    /\ "shared_buffers" \notin DOMAIN ret.value
    /\ "checkpoint_completion_target" \in DOMAIN ret.value

\* C5: for a known workload, max_connections in the result is the supplied
\* value when that is an integer in 1..9999 and the default of the workload
\* (web 200, oltp 300, dw 20, desktop 5, mixed 100) when the supplied value is
\* absent, 0, negative or above 9999; the call does not fail.
C5_MaxConnections ==
    (pc = "done" /\ ret.fn = "postgres_settings"
        /\ args.db_type \in {"web", "oltp", "dw", "desktop", "mixed"})
    => LET supplied == args.max_connections
           default  == [web |-> 200, oltp |-> 300, dw |-> 20, desktop |-> 5,
                        mixed |-> 100][args.db_type]
           expected == IF supplied.ty = "int" /\ supplied.n >= 1
                          /\ supplied.n <= 9999
                       THEN supplied.n
                       ELSE default
       IN  /\ ret.raised = None
           /\ config["max_connections"] = PyInt(expected)
           /\ AllDigits(ret.value["max_connections"])
           /\ DigitsValue(ret.value["max_connections"]) = expected

\* 9999 is kept, for a workload whose default differs
C5_Witness ==
    /\ Returned
    /\ args.max_connections = PyInt(9999)
    /\ ret.value["max_connections"] = <<"9", "9", "9", "9">>

\* C6: kernel_settings returns the empty dict on windows and for
\* db_version > 9.3; otherwise exactly kernel.shmall = floor(total_memory /
\* 8192) and kernel.shmmax = kernel.shmall * 4096, plain integers (9.3, linux,
\* 134217728 bytes: 16384 and 67108864).
C6_KernelSettings ==
    (pc = "done" /\ ret.fn = "kernel_settings") =>
        /\ ret.raised = None
        /\ IF args.os_type = "windows" \/ args.db_version > 93
           THEN DOMAIN ret.value = {}
           ELSE /\ DOMAIN ret.value = {"kernel.shmall", "kernel.shmmax"}
                /\ ret.value["kernel.shmall"] = args.total_memory.kb \div 8
                /\ ret.value["kernel.shmmax"] =
                       [kb |-> ret.value["kernel.shmall"] * 4, b |-> 0]
        /\ (args.os_type = "linux" /\ args.db_version = 93
                /\ args.total_memory = [kb |-> 131072, b |-> 0])
           => /\ ret.value["kernel.shmall"] = 16384
              /\ ret.value["kernel.shmmax"] = [kb |-> 67108864 \div 1024, b |-> 0]

C6_Witness ==
    /\ pc = "done"
    /\ ret.fn = "kernel_settings"
    /\ args.os_type = "linux"
    /\ args.db_version = 93
    /\ args.total_memory = [kb |-> 131072, b |-> 0]
    /\ DOMAIN ret.value = {"kernel.shmall", "kernel.shmmax"}

\* C7: for a key outside the exempt set format_value yields <v/1048576>GB
\* when v is divisible by 1048576, <v/1024>MB when v is divisible by 1024 and
\* not by 1048576, <v>kB otherwise, and the string read back is v; for an
\* exempt key it yields the digits of v with no unit.
C7_FormatValue ==
    (pc = "done" /\ ret.fn = "format_value") =>
        LET v   == args.value.n
            str == ret.value
            n   == Len(str)
        IN  IF args.key \in {"max_connections", "checkpoint_segments",
                             "checkpoint_completion_target",
                             "default_statistics_target", "random_page_cost",
                             "seq_page_cost"}
            THEN args.value.ty = "int"
                     => (AllDigits(str) /\ DigitsValue(str) = v)
            ELSE /\ n >= 3
                 /\ AllDigits(SubSeq(str, 1, n - 2))
                 /\ SubSeq(str, n - 1, n) =
                        IF v % 1048576 = 0 THEN <<"G", "B">>
                        ELSE IF v % 1024 = 0 THEN <<"M", "B">>
                        ELSE <<"k", "B">>
                 /\ DigitsValue(SubSeq(str, 1, n - 2)) =
                        IF v % 1048576 = 0 THEN v \div 1048576
                        ELSE IF v % 1024 = 0 THEN v \div 1024
                        ELSE v
                 /\ ParseSize(str) = v

\* 2 GB in KB is formatted with the largest unit
C7_Witness ==
    /\ pc = "done"
    /\ ret.fn = "format_value"
    /\ args.key = "shared_buffers"
    /\ args.value.n = 2097152
    /\ ret.value = <<"2", "G", "B">>

\* C8: tune reports changed = TRUE exactly when the content of the
\* PostgreSQL file or of the sysctl file after the run differs from its
\* content before the run (a file that did not exist counts as changed).
C8_ChangedIffAFileChanged ==
    [][(ret'.fn = "tune" /\ ret'.raised = None)
        => (ret'.value.changed
              <=> \/ fs'[POSTGRESQL_FILE] # fs[POSTGRESQL_FILE]
                  \/ fs'[SYSCTL_FILE] # fs[SYSCTL_FILE])]_vars

\* C9: from 256 MiB on, the unformatted shared_buffers is at most the
\* unformatted effective_cache_size (web, 1073741824 bytes: 262144 KB = 256MB
\* and 786432 KB = 768MB).
C9_SharedBuffersWithinCache ==
    (Returned /\ args.total_memory.kb >= LowMemoryKB) =>
        /\ config["shared_buffers"].n <= config["effective_cache_size"].n
        /\ (args.db_type = "web" /\ args.total_memory = [kb |-> 1048576, b |-> 0])
           => /\ config["shared_buffers"].n = 262144
              /\ ret.value["shared_buffers"] = <<"2", "5", "6", "M", "B">>
              /\ config["effective_cache_size"].n = 786432
              /\ ret.value["effective_cache_size"] = <<"7", "6", "8", "M", "B">>

C9_Witness ==
    /\ Returned
    /\ args.db_type = "web"
    /\ args.total_memory = [kb |-> 1048576, b |-> 0]
    /\ config["shared_buffers"].n = 262144
    /\ config["effective_cache_size"].n = 786432

\* C10: from 256 MiB on, shared_buffers + 3 * max_connections * work_mem is
\* at most memKB = floor(total_memory / 1024), and work_mem is at least 1 KB.
C10_WorkMemBudget ==
    (Returned /\ args.total_memory.kb >= LowMemoryKB) =>
        /\ config["max_connections"].n \in 1..9999
        /\ config["shared_buffers"].n
             + 3 * config["max_connections"].n * config["work_mem"].n
               <= args.total_memory.kb
        /\ config["work_mem"].n >= 1
        /\ ParseSize(ret.value["work_mem"]) = config["work_mem"].n

\* 9999 connections on 256 MiB for desktop: work_mem is 1 KB
C10_Witness ==
    /\ Returned
    /\ args.total_memory = [kb |-> LowMemoryKB, b |-> 0]
    /\ args.db_type = "desktop"
    /\ config["max_connections"].n = 9999
    /\ config["work_mem"].n = 1
    /\ ret.value["work_mem"] = <<"1", "k", "B">>

====
